---- MODULE Spec2Model ----
(***************************************************************************)
(* Model of the retirement calculator's engine (src/app.py, lines 142-288):*)
(* calculate_bond_tent_allocation, calculate_retirement_balance,           *)
(* calculate_withdrawal_years_enhanced and run_monte_carlo_simulation.     *)
(* and of the handler that calls them and reports the success rates        *)
(* (lines 290-316 and 398-411).                                            *)
(*                                                                         *)
(* Numbers.  The program computes in binary floating point; the model      *)
(* computes in scaled integers and truncates (floor) where a quotient is   *)
(* taken:                                                                  *)
(*   money             whole currency units                                *)
(*   returns           1/RateScale   (0.045 is 45)                         *)
(*   withdrawal rates  1/WScale      (0.035 is 350)                        *)
(*   allocations       1/AllocScale  (0.90 is 90)                          *)
(* Comparisons between quotients are made by cross-multiplication, so they *)
(* are exact.  The value months/12 that the simulator returns is kept as   *)
(* the pair (num, den).                                                    *)
(***************************************************************************)
EXTENDS Integers, Sequences, FiniteSets, TLC

VARIABLES
    args,                       \* the arguments of the running simulate call
    pc,                         \* "idle" | "call" | "loop" | "done" | "error"
    current_balance,
    months,
    current_withdrawal_rate,
    annual_withdrawal,
    consecutive_growth_months,
    result,                     \* the value returned (NoResult until then)
    adjusted,                   \* what the last month's guardrail did
    history,                    \* balance at the end of month 1, 2, ...
    widgets,                    \* the module-level inputs (sidebar widgets)
    aargs,                      \* the arguments of an allocation call
    apc,                        \* "idle" | "call" | "done"
    aresult,                    \* what the allocation call returned
    acalls,                     \* the calls made so far: arguments and result
    pargs,                      \* the arguments of a projection call
    ppc,                        \* "idle" | "call" | "loop" | "done" | "error"
    pbalance,                   \* balance of calculate_retirement_balance
    pyear,                      \* its loop variable: years completed
    presult,                    \* what it returned (NoResult until then)
    mcplan,                     \* num_sims of the successive Monte Carlo calls
    mcrun,                      \* which of them is running (from 1)
    mcpc,                       \* "idle" | "call" | "trial" | "accumulate" | "withdraw" | "returned"
    sim,                        \* loop variable of run_monte_carlo_simulation
    rng,                        \* state of the global generator np.random
    working_returns,
    bond_returns,               \* the bond returns drawn in the trial so far
    mbalance,                   \* balance of the trial
    myear,                      \* years accumulated in the trial
    results,                    \* the list being built
    returned,                   \* the lists the finished calls returned
    mc_results,                 \* the list the statistics are taken of
    spc,                        \* "idle" | "call" | "done"
    stats                       \* the success rates computed and shown

simVars == <<args, pc, current_balance, months, current_withdrawal_rate,
             annual_withdrawal, consecutive_growth_months, result,
             adjusted, history>>

allocVars == <<aargs, apc, aresult, acalls>>

projVars == <<pargs, ppc, pbalance, pyear, presult>>

mcVars == <<mcplan, mcrun, mcpc, sim, rng, working_returns, bond_returns,
            mbalance, myear,
            results, returned>>

statVars == <<mc_results, spc, stats>>

vars == <<simVars, widgets, allocVars, projVars, mcVars, statVars>>

(***************************************************************************)
(* Units and program constants                                             *)
(***************************************************************************)
RateScale == 1000
WScale == 10000
AllocScale == 100
MaxMonths == 1200
PerpetualMonths == 420

Max(a, b) == IF a >= b THEN a ELSE b
Min(a, b) == IF a <= b THEN a ELSE b

NoResult == [kind |-> "none"]
PERPETUAL == [kind |-> "perpetual"]
Years(num, den) == [kind |-> "years", num |-> num, den |-> den]

(***************************************************************************)
(* The module-level inputs (lines 59-112)                                  *)
(***************************************************************************)
\* The sidebar: with the bond tent unchecked, lines 105-108 fix its three values.
Widgets(age, target, savings, contrib, wret, infl, rret, tent, start, final, initial) ==
    [current_age |-> age, target_retirement_age |-> target,
     current_savings |-> savings, monthly_contribution |-> contrib,
     working_return |-> wret, inflation_rate |-> infl,
     retirement_return |-> rret,
     use_bond_tent |-> tent,
     bond_tent_start_age |-> IF tent THEN start ELSE target,
     final_bond_ratio |-> IF tent THEN final ELSE 40,
     initial_stock_ratio |-> IF tent THEN initial ELSE 80]

\* lines 79-84: the withdrawal rate of each strategy
withdrawal_strategies ==
    [Conservative |-> 300, Enhanced |-> 350, Traditional |-> 400,
     Aggressive |-> 450]

\* lines 66-69 and 85-96: Social Security and the withdrawal strategy; only the
\* Enhanced strategy has guardrails, the others take their own rate as both bounds
WithStrategy(w, ss, ssa, strategy, lower, upper) ==
    LET guard == strategy = "Enhanced"
        rate  == withdrawal_strategies[strategy]
    IN  w @@ [monthly_ss |-> ss, ss_start_age |-> ssa,
              withdrawal_rate |-> rate,
              use_guardrails |-> guard,
              guardrail_lower |-> IF guard THEN lower ELSE rate,
              guardrail_upper |-> IF guard THEN upper ELSE rate]

\* the sliders' defaults (30, 62, 100000, 2000, 10.5%, 4%, 4.5%, tent 50/50%/90%,
\* Social Security 3000 from 67, Enhanced with 2.5%..5.0%)
DefaultWidgets ==
    WithStrategy(Widgets(30, 62, 100000, 2000, 105, 40, 45, TRUE, 50, 50, 90),
                 3000, 67, "Enhanced", 250, 500)

(***************************************************************************)
(* calculate_bond_tent_allocation                                          *)
(***************************************************************************)
Allocation(stock, bond) == [kind |-> "allocation", stock |-> stock, bond |-> bond]
ZeroDivisionError == [kind |-> "ZeroDivisionError"]

\* the function with > in place of >= in the test of the retirement age
AllocationRetirementStrict(age, start_age, retirement_age, initial_stock, final_bond) ==
    IF ~widgets.use_bond_tent \/ age < start_age
    THEN Allocation(initial_stock, AllocScale - initial_stock)
    ELSE IF age > retirement_age
    THEN Allocation(AllocScale - final_bond, final_bond)
    ELSE IF retirement_age - start_age = 0
    THEN ZeroDivisionError
    ELSE LET stock_reduction == initial_stock - (AllocScale - final_bond)
             current_stock == initial_stock -
                 ((stock_reduction * (age - start_age))
                     \div (retirement_age - start_age))
         IN  Allocation(current_stock, AllocScale - current_stock)

\* the function returning the final pair the wrong way round
AllocationFinalSwapped(age, start_age, retirement_age, initial_stock, final_bond) ==
    IF ~widgets.use_bond_tent \/ age < start_age
    THEN Allocation(initial_stock, AllocScale - initial_stock)
    ELSE IF age >= retirement_age
    THEN Allocation(final_bond, AllocScale - final_bond)
    ELSE LET stock_reduction == initial_stock - (AllocScale - final_bond)
             current_stock == initial_stock -
                 ((stock_reduction * (age - start_age))
                     \div (retirement_age - start_age))
         IN  Allocation(current_stock, AllocScale - current_stock)

\* the function with the test of the retirement age made first
AllocationRetirementFirst(age, start_age, retirement_age, initial_stock, final_bond) ==
    IF age >= retirement_age
    THEN Allocation(AllocScale - final_bond, final_bond)
    ELSE IF ~widgets.use_bond_tent \/ age < start_age
    THEN Allocation(initial_stock, AllocScale - initial_stock)
    ELSE LET stock_reduction == initial_stock - (AllocScale - final_bond)
             current_stock == initial_stock -
                 ((stock_reduction * (age - start_age))
                     \div (retirement_age - start_age))
         IN  Allocation(current_stock, AllocScale - current_stock)

\* lines 142-153; use_bond_tent is read from the module level
calculate_bond_tent_allocation(age, start_age, retirement_age, initial_stock, final_bond) ==
    IF ~widgets.use_bond_tent \/ age < start_age
    THEN Allocation(initial_stock, AllocScale - initial_stock)
    ELSE IF age >= retirement_age
    THEN Allocation(AllocScale - final_bond, final_bond)
    ELSE IF retirement_age - start_age = 0
    THEN ZeroDivisionError
    ELSE LET stock_reduction == initial_stock - (AllocScale - final_bond)
             current_stock == initial_stock -
                 ((stock_reduction * (age - start_age))
                     \div (retirement_age - start_age))
         IN  Allocation(current_stock, AllocScale - current_stock)

AllocIdle ==
    /\ aargs = <<>>
    /\ apc = "idle"
    /\ aresult = NoResult
    /\ acalls = <<>>

\* the script is run at most this many times in a session
MaxCalls == 2

\* one call of the function
Allocate ==
    /\ apc = "call"
    /\ aresult' = calculate_bond_tent_allocation(aargs.age, aargs.start_age,
                       aargs.retirement_age, aargs.initial_stock, aargs.final_bond)
    /\ apc' = "done"
    /\ acalls' = Append(acalls, [args |-> aargs,
                                   use_bond_tent |-> widgets.use_bond_tent,
                                   result |-> aresult'])
    /\ UNCHANGED <<aargs, widgets, simVars, projVars, mcVars, statVars>>

\* The user sets the bond tent checkbox (line 100) and the script runs
\* again: the module-level use_bond_tent is assigned anew, and the function
\* is called with the arguments of before.
Rerun ==
    /\ apc = "done"
    /\ Len(acalls) < MaxCalls
    /\ \E tent \in BOOLEAN :
           widgets' = [widgets EXCEPT !.use_bond_tent = tent]
    /\ apc' = "call"
    /\ aresult' = NoResult
    /\ UNCHANGED <<aargs, acalls, simVars, projVars, mcVars, statVars>>

(***************************************************************************)
(* calculate_retirement_balance                                            *)
(***************************************************************************)
\* blended_return = (stock_pct * stock_return) + (bond_pct * bond_return),
\* in units of 1/(AllocScale * RateScale)
Blend(a, stock_return, bond_return) ==
    (a.stock * stock_return) + (a.bond * bond_return)

\* the growth with the "1 +" left out
CompoundNoPrincipal(bal, num, den) == (bal * num) \div den

\* balance *= (1 + blended_return), blended_return = num/den
Compound(bal, num, den) == bal + ((bal * num) \div den)

\* the contribution of one month in place of twelve
AddContributionMonthly(bal, monthly_contrib) == bal + monthly_contrib

\* balance += monthly_contrib * 12
AddContribution(bal, monthly_contrib) == bal + (12 * monthly_contrib)

ProjIdle ==
    /\ pargs = <<>>
    /\ ppc = "idle"
    /\ pbalance = 0
    /\ pyear = 0
    /\ presult = NoResult

\* lines 157-159: balance = principal, and the first test of range(years)
ProjectEnter ==
    /\ ppc = "call"
    /\ pbalance' = pargs.principal
    /\ pyear' = 0
    /\ IF 0 < pargs.years
       THEN ppc' = "loop" /\ UNCHANGED presult
       ELSE ppc' = "done" /\ presult' = pargs.principal
    /\ UNCHANGED <<pargs, widgets, simVars, allocVars, mcVars, statVars>>

\* lines 160-179: one year, then the next test of range(years) or the return (181)
ProjectYear ==
    /\ ppc = "loop"
    /\ LET age == widgets.current_age + pyear
           a   == calculate_bond_tent_allocation(age,
                      widgets.bond_tent_start_age, widgets.target_retirement_age,
                      widgets.initial_stock_ratio, widgets.final_bond_ratio)
       IN  IF pargs.use_tent /\ a = ZeroDivisionError
           THEN /\ ppc' = "error"
                /\ UNCHANGED <<pbalance, pyear, presult>>
           ELSE LET grown == IF pargs.use_tent
                             THEN Compound(pbalance,
                                      Blend(a, pargs.annual_rate,
                                            widgets.retirement_return),
                                      AllocScale * RateScale)
                             ELSE Compound(pbalance, pargs.annual_rate, RateScale)
                    bal   == AddContribution(grown, pargs.monthly_contrib)
                IN  /\ pbalance' = bal
                    /\ pyear' = pyear + 1
                    /\ IF pyear + 1 < pargs.years
                       THEN ppc' = "loop" /\ UNCHANGED presult
                       ELSE ppc' = "done" /\ presult' = bal
    /\ UNCHANGED <<pargs, widgets, simVars, allocVars, mcVars, statVars>>

(***************************************************************************)
(* calculate_withdrawal_years_enhanced                                     *)
(***************************************************************************)

\* the parameters of lines 183-185
SimArgs(b, w, r, ss, ssa, ra, g, lo, up) ==
    [balance |-> b, monthly_withdrawal |-> w, annual_rate |-> r,
     monthly_ss |-> ss, ss_start_age |-> ssa, retirement_age |-> ra,
     use_guardrails |-> g, lower_bound |-> lo, upper_bound |-> up]

\* current_balance *= (1 + monthly_rate), monthly_rate = annual_rate / 12
ApplyGrowth(bal, annual_rate) ==
    bal + ((bal * annual_rate) \div (12 * RateScale))

\* ss_income = monthly_ss if (ss_start_age and retirement_age + months/12 >= ss_start_age) else 0
\* (an ss_start_age of None or 0 is falsy)
SSIncome(a, m) ==
    IF a.ss_start_age # 0 /\ 12 * a.retirement_age + m >= 12 * a.ss_start_age
    THEN a.monthly_ss ELSE 0

\* the loop test with the ceiling off by one
LoopContinuesInclusive(bal, m) == bal > 0 /\ m <= MaxMonths

\* the while test of the loop
LoopContinues(bal, m) == bal > 0 /\ m < MaxMonths

\* current_implied_rate > upper_bound,
\* current_implied_rate = annual_withdrawal / current_balance if current_balance > 0 else upper_bound
ImpliedAbove(aw, bal, upper) == IF bal > 0 THEN aw * WScale > upper * bal ELSE FALSE

\* current_implied_rate < lower_bound
ImpliedBelow(aw, bal, upper, lower) ==
    IF bal > 0 THEN aw * WScale < lower * bal ELSE upper < lower

\* the shrink without its floor
ShrinkRateNoFloor(rate, lower) == (rate * 95) \div 100

\* max(lower_bound, current_withdrawal_rate * 0.95)
ShrinkRate(rate, lower) == Max(lower, (rate * 95) \div 100)

\* the growth by a tenth in place of a twentieth
GrowRateTenth(rate, upper) == Min(upper, (rate * 110) \div 100)

\* min(upper_bound, current_withdrawal_rate * 1.05)
GrowRate(rate, upper) == Min(upper, (rate * 105) \div 100)

\* the guardrails block evaluated every month
GuardrailsMonthly(a, m, bal, rate, aw) ==
    IF a.use_guardrails /\ m > 0
    THEN IF ImpliedAbove(aw, bal, a.upper_bound)
         THEN LET r == Max(a.lower_bound, (rate * 95) \div 100)
              IN  [rate |-> r, aw |-> (bal * r) \div WScale, kind |-> "shrink"]
         ELSE IF ImpliedBelow(aw, bal, a.upper_bound, a.lower_bound)
                 /\ rate < a.upper_bound
         THEN LET r == Min(a.upper_bound, (rate * 105) \div 100)
              IN  [rate |-> r, aw |-> (bal * r) \div WScale, kind |-> "grow"]
         ELSE [rate |-> rate, aw |-> aw, kind |-> "none"]
    ELSE [rate |-> rate, aw |-> aw, kind |-> "none"]

\* the guardrails block: the rate, the annual withdrawal and what was done
Guardrails(a, m, bal, rate, aw) ==
    IF a.use_guardrails /\ m % 12 = 0 /\ m > 0
    THEN IF ImpliedAbove(aw, bal, a.upper_bound)
         THEN LET r == ShrinkRate(rate, a.lower_bound)
              IN  [rate |-> r, aw |-> (bal * r) \div WScale, kind |-> "shrink"]
         ELSE IF ImpliedBelow(aw, bal, a.upper_bound, a.lower_bound)
                 /\ rate < a.upper_bound
         THEN LET r == GrowRate(rate, a.upper_bound)
              IN  [rate |-> r, aw |-> (bal * r) \div WScale, kind |-> "grow"]
         ELSE [rate |-> rate, aw |-> aw, kind |-> "none"]
    ELSE [rate |-> rate, aw |-> aw, kind |-> "none"]

\* the withdrawal with the division by 12 left out
NetWithdrawalAnnual(aw, ss) == Max(0, aw - ss)

\* monthly_net_withdrawal = max(0, (annual_withdrawal / 12) - ss_income)
NetWithdrawal(aw, ss) == Max(0, (aw \div 12) - ss)

\* current_balance > balance * 0.8
AboveThreshold(bal, original) == 10 * bal > 8 * original

\* the counter without its reset
NextCountNoReset(count, above) == IF above THEN count + 1 ELSE count

\* the counter of consecutive months above the threshold
NextCount(count, above) == IF above THEN count + 1 ELSE 0

\* the detection with > in place of >=
PerpetualReachedLate(count, above) == above /\ count > PerpetualMonths

\* consecutive_growth_months >= 420, tested only in a month above the threshold
PerpetualReached(count, above) == above /\ count >= PerpetualMonths

\* lines 187-197: the locals, and the first test of the loop
Enter ==
    /\ pc = "call"
    /\ IF args.balance = 0
       THEN \* initial_annual_withdrawal / balance raises ZeroDivisionError
            /\ pc' = "error"
            /\ UNCHANGED <<current_balance, months, current_withdrawal_rate,
                           annual_withdrawal, consecutive_growth_months, result>>
       ELSE /\ current_balance' = args.balance
            /\ months' = 0
            /\ current_withdrawal_rate' =
                   (12 * args.monthly_withdrawal * WScale) \div args.balance
            /\ annual_withdrawal' = 12 * args.monthly_withdrawal
            /\ consecutive_growth_months' = 0
            /\ IF LoopContinues(args.balance, 0)
               THEN pc' = "loop" /\ UNCHANGED result
               ELSE pc' = "done" /\ result' = Years(0, 12)
    /\ UNCHANGED <<args, adjusted, history>>
    /\ UNCHANGED <<widgets, allocVars, projVars, mcVars, statVars>>

\* lines 198-230: one month, then the test of the loop (197) or the return (232)
Month ==
    /\ pc = "loop"
    /\ LET m     == months + 1
           grown == ApplyGrowth(current_balance, args.annual_rate)
           ss    == SSIncome(args, m)
           g     == Guardrails(args, m, grown, current_withdrawal_rate,
                               annual_withdrawal)
           bal   == grown - NetWithdrawal(g.aw, ss)
           above == AboveThreshold(bal, args.balance)
           count == NextCount(consecutive_growth_months, above)
       IN  /\ months' = m
           /\ current_balance' = bal
           /\ current_withdrawal_rate' = g.rate
           /\ annual_withdrawal' = g.aw
           /\ adjusted' = g.kind
           /\ consecutive_growth_months' = count
           /\ history' = Append(history, bal)
           /\ IF PerpetualReached(count, above)
              THEN pc' = "done" /\ result' = PERPETUAL
              ELSE IF LoopContinues(bal, m)
              THEN pc' = "loop" /\ UNCHANGED result
              ELSE pc' = "done" /\ result' = Years(m, 12)
    /\ UNCHANGED args
    /\ UNCHANGED <<widgets, allocVars, projVars, mcVars, statVars>>

(***************************************************************************)
(* run_monte_carlo_simulation                                              *)
(***************************************************************************)
\* np.random is one global generator.  Its Mersenne Twister is modelled by a
\* small linear congruential generator: seed() sets the state from the seed
\* alone, every draw advances the state, and a normal deviate is read off the
\* state as -1, 0 or +1 standard deviations.

\* a seed() that leaves the generator as it is
SeedRngKeep(state, seed) == state

\* a seed() that acts in the first trial only
SeedRngFirstOnly(state, seed) ==
    IF seed = 0 THEN ((seed * 2654) + 1) % 8191 ELSE state

\* np.random.seed(seed): the state it leaves depends on the seed alone
SeedRng(state, seed) == ((seed * 2654) + 1) % 8191

\* the state after one draw
NextRng(state) == ((69 * state) + 74) % 8191

Deviate(state) == (state % 3) - 1

\* np.random.normal(mean, sd) read from the state a draw leaves
Normal(state, mean, sd) == mean + (sd * Deviate(state))

\* np.random.normal(mean, sd, n): n draws in a row, <<the values, the state left>>
RECURSIVE NormalVector(_, _, _, _)
NormalVector(state, mean, sd, n) ==
    IF n <= 0 THEN <<(<<>>), state>>
    ELSE LET next == NextRng(state)
             rest == NormalVector(next, mean, sd, n - 1)
         IN  <<(<<Normal(next, mean, sd)>>) \o rest[1], rest[2]>>

\* monthly_contribution * (1 + inflation_rate) ** years_to_retirement
RECURSIVE Inflate(_, _, _)
Inflate(amount, inflation, n) ==
    IF n <= 0 THEN amount
    ELSE LET prev == Inflate(amount, inflation, n - 1)
         IN  prev + ((prev * inflation) \div RateScale)

years_to_retirement == widgets.target_retirement_age - widgets.current_age

future_monthly_expenses ==
    Inflate(widgets.monthly_contribution, widgets.inflation_rate,
            years_to_retirement)

\* the record with the withdrawal the simulation ended with
TrialRecordRealized(index, balance, years_lasted) ==
    [trial |-> index,
     balance_at_retirement |-> balance,
     years_lasted |-> years_lasted,
     monthly_withdrawal |-> annual_withdrawal \div 12]

\* lines 273-286: the record of a trial (trial is its index, kept for the claims)
TrialRecord(index, balance, years_lasted) ==
    [trial |-> index,
     balance_at_retirement |-> balance,
     years_lasted |-> years_lasted,
     monthly_withdrawal |->
        IF years_lasted = PERPETUAL
        THEN (balance * widgets.withdrawal_rate) \div (WScale * 12)
        ELSE future_monthly_expenses]

MCIdle ==
    /\ mcplan = <<>>
    /\ mcrun = 0
    /\ mcpc = "idle"
    /\ sim = 0
    /\ rng = 0
    /\ working_returns = <<>>
    /\ bond_returns = <<>>
    /\ mbalance = 0
    /\ myear = 0
    /\ results = <<>>
    /\ returned = <<>>

\* lines 236-238: results = [], and the first test of range(num_sims)
MCEnter ==
    /\ mcpc = "call"
    /\ results' = <<>>
    /\ sim' = 0
    /\ IF 0 < mcplan[mcrun]
       THEN mcpc' = "trial" /\ UNCHANGED returned
       ELSE mcpc' = "returned" /\ returned' = Append(returned, <<>>)
    /\ UNCHANGED <<mcplan, mcrun, rng, working_returns, bond_returns, mbalance,
                   myear>>
    /\ UNCHANGED <<widgets, simVars, allocVars, projVars, statVars>>

\* lines 239-246: seed, draw the stock returns, balance = current_savings
MCBeginTrial ==
    /\ mcpc = "trial"
    /\ LET drawn == NormalVector(SeedRng(rng, sim), widgets.working_return, 170,
                                 years_to_retirement)
       IN  /\ working_returns' = drawn[1]
           /\ rng' = drawn[2]
    /\ bond_returns' = <<>>
    /\ mbalance' = widgets.current_savings
    /\ myear' = 0
    /\ mcpc' = "accumulate"
    /\ UNCHANGED <<mcplan, mcrun, sim, results, returned>>
    /\ UNCHANGED <<widgets, simVars, allocVars, projVars, statVars>>

\* the year's growth with the bond tent ignored
TrialGrowthStockOnly(balance, a, stock_return, bond_return) ==
    Compound(balance, stock_return, RateScale)

\* lines 249-259: the year's growth, blended when the bond tent is used
TrialGrowth(balance, a, stock_return, bond_return) ==
    IF widgets.use_bond_tent
    THEN Compound(balance, Blend(a, stock_return, bond_return),
                  AllocScale * RateScale)
    ELSE Compound(balance, stock_return, RateScale)

\* lines 247-262: one year of the accumulation
MCYear ==
    /\ mcpc = "accumulate"
    /\ myear < years_to_retirement
    /\ LET age  == widgets.current_age + myear
           a    == calculate_bond_tent_allocation(age,
                       widgets.bond_tent_start_age, widgets.target_retirement_age,
                       widgets.initial_stock_ratio, widgets.final_bond_ratio)
           next == NextRng(rng)
           bond_return_sim == Normal(next, widgets.retirement_return, 25)
           grown == TrialGrowth(mbalance, a, working_returns[myear + 1],
                                bond_return_sim)
       IN  /\ mbalance' = AddContribution(grown, widgets.monthly_contribution)
           /\ rng' = IF widgets.use_bond_tent THEN next ELSE rng
           /\ bond_returns' = IF widgets.use_bond_tent
                              THEN Append(bond_returns, bond_return_sim)
                              ELSE bond_returns
    /\ myear' = myear + 1
    /\ UNCHANGED <<mcplan, mcrun, mcpc, sim, working_returns, results, returned>>
    /\ UNCHANGED <<widgets, simVars, allocVars, projVars, statVars>>

\* lines 265-271: the call of calculate_withdrawal_years_enhanced
MCStartWithdrawal ==
    /\ mcpc = "accumulate"
    /\ myear >= years_to_retirement
    /\ args' = SimArgs(mbalance, future_monthly_expenses,
                       widgets.retirement_return, widgets.monthly_ss,
                       widgets.ss_start_age, widgets.target_retirement_age,
                       widgets.use_guardrails, widgets.guardrail_lower,
                       widgets.guardrail_upper)
    /\ pc' = "call"
    /\ current_balance' = 0
    /\ months' = 0
    /\ current_withdrawal_rate' = 0
    /\ annual_withdrawal' = 0
    /\ consecutive_growth_months' = 0
    /\ result' = NoResult
    /\ adjusted' = "none"
    /\ history' = <<>>
    /\ mcpc' = "withdraw"
    /\ UNCHANGED <<mcplan, mcrun, sim, rng, working_returns, bond_returns,
                   mbalance, myear, results, returned>>
    /\ UNCHANGED <<widgets, allocVars, projVars, statVars>>

\* lines 273-288: the record is appended; the next test of range(num_sims), or
\* the return of the list
MCRecord ==
    /\ mcpc = "withdraw"
    /\ pc = "done"
    /\ LET list == Append(results, TrialRecord(sim, mbalance, result))
       IN  /\ results' = list
           /\ IF sim + 1 < mcplan[mcrun]
              THEN mcpc' = "trial" /\ UNCHANGED returned
              ELSE mcpc' = "returned" /\ returned' = Append(returned, list)
    /\ sim' = sim + 1
    /\ pc' = "idle"
    /\ UNCHANGED <<mcplan, mcrun, rng, working_returns, bond_returns, mbalance,
                   myear>>
    /\ UNCHANGED <<args, current_balance, months, current_withdrawal_rate,
                   annual_withdrawal, consecutive_growth_months, result,
                   adjusted, history>>
    /\ UNCHANGED <<widgets, allocVars, projVars, statVars>>

\* line 310, run again: the button pressed once more with the same inputs, in
\* the same process (the generator keeps the state the last call left)
MCCallAgain ==
    /\ mcpc = "returned"
    /\ mcrun < Len(mcplan)
    /\ mcrun' = mcrun + 1
    /\ mcpc' = "call"
    /\ UNCHANGED <<mcplan, sim, rng, working_returns, bond_returns, mbalance,
                   myear, results, returned>>
    /\ UNCHANGED <<widgets, simVars, allocVars, projVars, statVars>>

(***************************************************************************)
(* The success rates of the results (lines 310-316 and 398-411)            *)
(***************************************************************************)
\* y >= T for a finite years_lasted y
AtMost(y, T) == y.num <= T * y.den
AtLeast(y, T) == y.num >= T * y.den

\* line 314: the finite durations
years_lasted(rs) ==
    LET finite == SelectSeq(rs, LAMBDA r : r.years_lasted # PERPETUAL)
    IN  [i \in 1..Len(finite) |-> finite[i].years_lasted]

\* line 315
infinite_scenarios(rs) ==
    Len(SelectSeq(rs, LAMBDA r : r.years_lasted = PERPETUAL))

\* sum(1 for y in years_lasted if y >= T)
CountAtLeast(ys, T) == Len(SelectSeq(ys, LAMBDA y : AtLeast(y, T)))

\* line 112 and 310: the list has num_simulations records
num_simulations(rs) == Len(rs)

\* a rate as the fraction num/den of 100%
Rate(num, den) == [num |-> num, den |-> den]

\* line 400-401: the rate among the finite durations only
success(rs, T) ==
    Rate(CountAtLeast(years_lasted(rs), T), Len(years_lasted(rs)))

\* the rate with the perpetual trials left out of the count
TotalSuccessFiniteOnly(rs, T) ==
    Rate(CountAtLeast(years_lasted(rs), T), num_simulations(rs))

\* lines 404-405
total_success(rs, T) ==
    Rate(CountAtLeast(years_lasted(rs), T) + infinite_scenarios(rs),
         num_simulations(rs))

\* f"{x:.1f}%" of x = 100 * num / den: the nearest tenth of a percent
Format1f(rate) == ((2000 * rate.num) + rate.den) \div (2 * rate.den)

StatIdle ==
    /\ mc_results = <<>>
    /\ spc = "idle"
    /\ stats = NoResult

\* lines 314-315 and 398-411: the two success rates are computed and shown
Report ==
    /\ spc = "call"
    /\ stats' = IF years_lasted(mc_results) # <<>>
                THEN [kind |-> "computed",
                      total_success_30 |-> total_success(mc_results, 30),
                      total_success_35 |-> total_success(mc_results, 35),
                      shown_30 |-> Format1f(total_success(mc_results, 30)),
                      shown_35 |-> Format1f(total_success(mc_results, 35))]
                ELSE [kind |-> "literal",
                      shown_30 |-> 1000,
                      shown_35 |-> 1000]
    /\ spc' = "done"
    /\ UNCHANGED <<mc_results, widgets, simVars, allocVars, projVars, mcVars>>

(***************************************************************************)
(* The simulator called on its own                                         *)
(***************************************************************************)
\* Starting balances: non-positive ones, and positive ones that a withdrawal of
\* 100 exhausts before, exactly at, and after the ceiling, or never within it.
SimBalances == {-100000, 0, 100000, 120000, 150000, 300000}
SimWithdrawals == {0, 100, 300, 700, 1700, 2500}
SimReturns == {0, 45}
\* <<monthly_ss, ss_start_age>>: none, or from one year after retirement
SimSocialSecurity == {<<0, 0>>, <<3000, 63>>}
\* <<lower_bound, upper_bound>>
SimBands == {<<250, 500>>}
\* the two bounds the wrong way round, as a direct caller can pass them
SimInvertedBands == {<<500, 250>>}

SimInputs ==
    { SimArgs(b, w, r, ss[1], ss[2], 62, g, band[1], band[2]) :
        b \in SimBalances, w \in SimWithdrawals, r \in SimReturns,
        ss \in SimSocialSecurity, g \in BOOLEAN, band \in SimBands }
    \cup
    { SimArgs(b, w, r, ss[1], ss[2], 62, TRUE, band[1], band[2]) :
        b \in SimBalances, w \in SimWithdrawals, r \in SimReturns,
        ss \in SimSocialSecurity, band \in SimInvertedBands }

\* the simulator's locals before a call
SimLocalsIdle ==
    /\ current_balance = 0
    /\ months = 0
    /\ current_withdrawal_rate = 0
    /\ annual_withdrawal = 0
    /\ consecutive_growth_months = 0
    /\ result = NoResult
    /\ adjusted = "none"
    /\ history = <<>>

InitSim ==
    /\ args \in SimInputs
    /\ pc = "call"
    /\ SimLocalsIdle
    /\ widgets = DefaultWidgets
    /\ AllocIdle
    /\ ProjIdle
    /\ MCIdle
    /\ StatIdle

NextSim == Enter \/ Month

SpecSim == InitSim /\ [][NextSim]_vars

(***************************************************************************)
(* The allocation function called on its own                               *)
(***************************************************************************)
AllocArgs(age, start, retirement, initial, final) ==
    [age |-> age, start_age |-> start, retirement_age |-> retirement,
     initial_stock |-> initial, final_bond |-> final]

AllocAges == {45, 50, 52, 55, 56, 57, 58, 59, 60, 62, 65}
\* tent start ages before, at and after the retirement ages
AllocStartAges == {40, 50, 55, 60}
AllocRetirementAges == {55, 58, 62}
AllocInitialStocks == {60, 90, 100}
AllocFinalBonds == {20, 50, 80}

AllocInputs ==
    { AllocArgs(age, start, retirement, initial, final) :
        age \in AllocAges, start \in AllocStartAges,
        retirement \in AllocRetirementAges,
        initial \in AllocInitialStocks, final \in AllocFinalBonds }

InitAlloc ==
    /\ widgets \in { WithStrategy(
                          Widgets(30, 62, 100000, 2000, 105, 40, 45, tent, 50, 50, 90),
                          3000, 67, "Enhanced", 250, 500) : tent \in BOOLEAN }
    /\ aargs \in AllocInputs
    /\ apc = "call"
    /\ aresult = NoResult
    /\ acalls = <<>>
    /\ args = <<>>
    /\ pc = "idle"
    /\ SimLocalsIdle
    /\ ProjIdle
    /\ MCIdle
    /\ StatIdle

NextAlloc == Allocate \/ Rerun

SpecAlloc == InitAlloc /\ [][NextAlloc]_vars

(***************************************************************************)
(* The projection called on its own                                        *)
(***************************************************************************)
MaxYears == 3

ProjArgs(principal, contrib, years, rate, tent) ==
    [principal |-> principal, monthly_contrib |-> contrib, years |-> years,
     annual_rate |-> rate, use_tent |-> tent]

ProjPrincipals == {0, 10000, 50000}
ProjContributions == {0, 200}
ProjReturns == {0, 105}

ProjInputs ==
    { ProjArgs(principal, contrib, years, rate, tent) :
        principal \in ProjPrincipals, contrib \in ProjContributions,
        years \in 0..MaxYears, rate \in ProjReturns, tent \in BOOLEAN }

\* aged 54, tent from 55, retiring at 57: the years of a projection fall before
\* the tent, inside it and at retirement
ProjWidgets ==
    { WithStrategy(Widgets(54, 57, 100000, 2000, 105, 40, rret, tent, 55, 50, initial),
                   3000, 67, "Enhanced", 250, 500) :
        rret \in {0, 45}, tent \in BOOLEAN, initial \in {90, 100} }

InitProj ==
    /\ widgets \in ProjWidgets
    /\ pargs \in ProjInputs
    /\ ppc = "call"
    /\ pbalance = 0
    /\ pyear = 0
    /\ presult = NoResult
    /\ args = <<>>
    /\ pc = "idle"
    /\ SimLocalsIdle
    /\ AllocIdle
    /\ MCIdle
    /\ StatIdle

NextProj == ProjectEnter \/ ProjectYear

SpecProj == InitProj /\ [][NextProj]_vars

(***************************************************************************)
(* Monte Carlo: two calls, one after the other                             *)
(***************************************************************************)
MaxSims == 2

\* aged 54, retiring at 56, tent from 53; <<monthly_ss, ss_start_age>> and the
\* strategy make trials that run out, and trials that never do
MCWidgets ==
    { WithStrategy(Widgets(54, 56, 30000, 500, 105, 40, 45, tent, 53, 50, 90),
                   c[1], c[2], c[3], 250, 500) :
        tent \in BOOLEAN,
        c \in {<<0, 67, "Enhanced">>, <<0, 67, "Traditional">>,
               <<3000, 62, "Traditional">>} }

\* states the generator may be in when the button is pressed
MCGeneratorStates == {0, 4242}

InitMC ==
    /\ widgets \in MCWidgets
    /\ mcplan \in (1..MaxSims) \X (1..MaxSims)
    /\ mcrun = 1
    /\ mcpc = "call"
    /\ sim = 0
    /\ rng \in MCGeneratorStates
    /\ working_returns = <<>>
    /\ bond_returns = <<>>
    /\ mbalance = 0
    /\ myear = 0
    /\ results = <<>>
    /\ returned = <<>>
    /\ args = <<>>
    /\ pc = "idle"
    /\ SimLocalsIdle
    /\ AllocIdle
    /\ ProjIdle
    /\ StatIdle

NextMC ==
    \/ MCEnter
    \/ MCBeginTrial
    \/ MCYear
    \/ MCStartWithdrawal
    \/ Enter
    \/ Month
    \/ MCRecord
    \/ MCCallAgain

SpecMC == InitMC /\ [][NextMC]_vars

(***************************************************************************)
(* The calculations of the button handler (lines 290-310): the projection, *)
(* the fund duration and the Monte Carlo run, one after the other          *)
(***************************************************************************)
InitCalc ==
    /\ widgets \in MCWidgets
    /\ pargs = ProjArgs(widgets.current_savings, widgets.monthly_contribution,
                        years_to_retirement, widgets.working_return,
                        widgets.use_bond_tent)
    /\ ppc = "call"
    /\ pbalance = 0
    /\ pyear = 0
    /\ presult = NoResult
    /\ mcplan \in { <<n>> : n \in 1..MaxSims }
    /\ mcrun = 1
    /\ mcpc = "idle"
    /\ sim = 0
    /\ rng \in MCGeneratorStates
    /\ working_returns = <<>>
    /\ bond_returns = <<>>
    /\ mbalance = 0
    /\ myear = 0
    /\ results = <<>>
    /\ returned = <<>>
    /\ args = <<>>
    /\ pc = "idle"
    /\ SimLocalsIdle
    /\ AllocIdle
    /\ StatIdle

\* lines 303-307: fund_duration = calculate_withdrawal_years_enhanced(
\* retirement_balance, future_monthly_expenses, ...)
FundDuration ==
    /\ ppc = "done"
    /\ pc = "idle"
    /\ mcpc = "idle"
    /\ args' = SimArgs(presult, future_monthly_expenses,
                       widgets.retirement_return, widgets.monthly_ss,
                       widgets.ss_start_age, widgets.target_retirement_age,
                       widgets.use_guardrails, widgets.guardrail_lower,
                       widgets.guardrail_upper)
    /\ pc' = "call"
    /\ UNCHANGED <<current_balance, months, current_withdrawal_rate,
                   annual_withdrawal, consecutive_growth_months, result,
                   adjusted, history>>
    /\ UNCHANGED <<widgets, allocVars, projVars, mcVars, statVars>>

\* line 310: mc_results = run_monte_carlo_simulation(num_simulations)
StartMonteCarlo ==
    /\ ppc = "done"
    /\ pc = "done"
    /\ mcpc = "idle"
    /\ mcpc' = "call"
    /\ UNCHANGED <<mcplan, mcrun, sim, rng, working_returns, bond_returns,
                   mbalance, myear, results, returned>>
    /\ UNCHANGED <<widgets, simVars, allocVars, projVars, statVars>>

NextCalc ==
    \/ ProjectEnter
    \/ ProjectYear
    \/ FundDuration
    \/ StartMonteCarlo
    \/ MCEnter
    \/ MCBeginTrial
    \/ MCYear
    \/ MCStartWithdrawal
    \/ Enter
    \/ Month
    \/ MCRecord

SpecCalc == InitCalc /\ [][NextCalc]_vars

(***************************************************************************)
(* The statistics taken of a list of results                               *)
(***************************************************************************)
MaxTrials == 3

\* months a trial can have lasted: around the two thresholds, and the cap
StatMonths == {1, 359, 360, 419, 420, 1200}
StatYears == {PERPETUAL} \cup { Years(m, 12) : m \in StatMonths }
StatBalance == 500000

StatInputs ==
    UNION { { [i \in 1..n |-> TrialRecord(i - 1, StatBalance, f[i])] :
                f \in [1..n -> StatYears] } : n \in 1..MaxTrials }

InitStats ==
    /\ widgets = DefaultWidgets
    /\ mc_results \in StatInputs
    /\ spc = "call"
    /\ stats = NoResult
    /\ args = <<>>
    /\ pc = "idle"
    /\ SimLocalsIdle
    /\ AllocIdle
    /\ ProjIdle
    /\ MCIdle

NextStats == Report

SpecStats == InitStats /\ [][NextStats]_vars

(***************************************************************************)
(* Claims about the simulator                                              *)
(***************************************************************************)
\* the balance at the end of month k is above 0.8 x the original balance
MonthAbove(k) == 10 * history[k] > 8 * args.balance

\* the last PerpetualMonths months were all above the threshold
LastWindowAbove ==
    /\ months >= PerpetualMonths
    /\ \A k \in (months - PerpetualMonths + 1)..months : MonthAbove(k)

\* C1: for a balance > 0 simulate ends after at most 1200 months (a call that
\* has not ended can always run its next month, and never fails), and it
\* returns PERPETUAL, or months/12 where months is the first month whose
\* balance is <= 0, or 1200/12 when the ceiling is hit with the balance still
\* positive.
C1_TerminatesWithDuration ==
    args.balance > 0 =>
        /\ months <= MaxMonths
        /\ Len(history) = months
        /\ pc \in {"call", "loop", "done"}
        /\ pc = "loop" => months < MaxMonths /\ result = NoResult
        /\ pc = "done" =>
              \/ result = PERPETUAL
              \/ /\ result = Years(months, 12)
                 /\ months >= 1
                 /\ \A k \in 1..(months - 1) : history[k] > 0
                 /\ history[months] <= 0 \/ months = MaxMonths

\* C1 witness: the ceiling was hit with money left and no perpetual detection
C1_Witness ==
    /\ pc = "done"
    /\ result = Years(MaxMonths, 12)
    /\ current_balance > 0

\* C2: as soon as the balance has been above 0.8 x the original in 420
\* consecutive months the call has returned PERPETUAL; as no month runs after
\* a return, the 420th such month is the last one that ran.
C2_PerpetualAtWindow ==
    LastWindowAbove => pc = "done" /\ result = PERPETUAL

\* C2 witness: 420 months above the threshold from the start
C2_Witness ==
    /\ months = PerpetualMonths
    /\ LastWindowAbove
    /\ result = PERPETUAL

\* C3: PERPETUAL is returned only when each of the last 420 months was above
\* the threshold, and a month at or below it leaves the counter at 0.
C3_PerpetualOnlyAfterWindow ==
    /\ result = PERPETUAL => LastWindowAbove
    /\ (pc \in {"loop", "done"} /\ months >= 1 /\ ~MonthAbove(months))
          => consecutive_growth_months = 0

\* C3 witness: PERPETUAL returned by a run that had fallen to the threshold
\* or below after some months above it
C3_Witness ==
    /\ result = PERPETUAL
    /\ \E k \in 2..months : ~MonthAbove(k) /\ MonthAbove(k - 1)

\* the case of C4: no return, no Social Security, no guardrails, B/w <= 1200
StraightLineCase ==
    /\ args.annual_rate = 0
    /\ args.monthly_ss = 0
    /\ ~args.use_guardrails
    /\ args.balance > 0
    /\ args.monthly_withdrawal > 0
    /\ args.balance <= MaxMonths * args.monthly_withdrawal

CeilDiv(a, b) == (a + b - 1) \div b

C5_RateInBandAfterAdjustment ==
    (args.use_guardrails /\ args.lower_bound <= args.upper_bound
        /\ adjusted # "none")
    => /\ args.lower_bound <= current_withdrawal_rate
       /\ current_withdrawal_rate <= args.upper_bound

(***************************************************************************)
(* Claims about the projection                                             *)
(***************************************************************************)
\* balance <- balance x (1 + base_return) + 12 x monthly_contribution, n times
RECURSIVE YearlyRecurrence(_, _, _, _)
YearlyRecurrence(principal, contrib, rate, n) ==
    IF n <= 0 THEN principal
    ELSE LET prev == YearlyRecurrence(principal, contrib, rate, n - 1)
         IN  prev + ((prev * rate) \div RateScale) + (12 * contrib)

\* C8: with allocation disabled the balance after each year, and the result,
\* are the recurrence applied that many times to the principal; with
\* year_count = 0 the result is the principal, whatever the other parameters.
C8_ProjectIsRecurrence ==
    /\ (ppc \in {"loop", "done"} /\ ~pargs.use_tent) =>
          pbalance = YearlyRecurrence(pargs.principal, pargs.monthly_contrib,
                                      pargs.annual_rate, pyear)
    /\ (ppc = "done" /\ ~pargs.use_tent) =>
          /\ pyear = pargs.years
          /\ presult = YearlyRecurrence(pargs.principal, pargs.monthly_contrib,
                                        pargs.annual_rate, pargs.years)
    /\ (ppc = "done" /\ pargs.years = 0) => presult = pargs.principal

\* C8 witness: a projection without allocation over two years or more, with a
\* principal, a return and a contribution
C8_Witness ==
    /\ ppc = "done"
    /\ ~pargs.use_tent
    /\ pargs.years >= 2
    /\ pargs.principal > 0 /\ pargs.annual_rate > 0 /\ pargs.monthly_contrib > 0

\* C9 as stated: with contribution 0 and base_return 0 the result is the
\* principal for every year_count, allocation enabled or not.
C9_ZeroReturnKeepsPrincipal ==
    (ppc = "done" /\ pargs.monthly_contrib = 0 /\ pargs.annual_rate = 0)
    => presult = pargs.principal

\* the bond share of every elapsed year earns nothing
NoBondReturn ==
    \A y \in 0..(pargs.years - 1) :
        LET a == calculate_bond_tent_allocation(widgets.current_age + y,
                     widgets.bond_tent_start_age, widgets.target_retirement_age,
                     widgets.initial_stock_ratio, widgets.final_bond_ratio)
        IN  a.bond * widgets.retirement_return = 0

\* C9 amended: with contribution 0 and base_return 0 the result is the principal
\* for every year_count when allocation is disabled, and when it is enabled
\* provided the bond fraction or retirement_return is 0 in every elapsed year.
C9_ZeroReturnKeepsPrincipalAmended ==
    (ppc = "done" /\ pargs.monthly_contrib = 0 /\ pargs.annual_rate = 0
        /\ (~pargs.use_tent \/ NoBondReturn))
    => presult = pargs.principal

\* C9 witness: allocation enabled, all in stocks for two years, bonds paying
C9_Witness ==
    /\ ppc = "done"
    /\ pargs.monthly_contrib = 0 /\ pargs.annual_rate = 0
    /\ pargs.use_tent /\ NoBondReturn
    /\ widgets.retirement_return > 0
    /\ pargs.years >= 2 /\ pargs.principal > 0

(***************************************************************************)
(* Claims about the allocation                                             *)
(***************************************************************************)
\* the three cases of the claim, in its order, as <<stock, bond>>
AllocationReference(x) ==
    IF ~widgets.use_bond_tent \/ x.age < x.start_age
    THEN <<x.initial_stock, AllocScale - x.initial_stock>>
    ELSE IF x.age >= x.retirement_age
    THEN <<AllocScale - x.final_bond, x.final_bond>>
    ELSE LET stock == x.initial_stock -
                 (((x.age - x.start_age)
                     * (x.initial_stock - (AllocScale - x.final_bond)))
                   \div (x.retirement_age - x.start_age))
         IN  <<stock, AllocScale - stock>>

\* C10: allocate returns what the three-case reference gives, and the two
\* fractions sum to 1.
C10_AllocateThreeCases ==
    apc = "done" =>
        /\ aresult.kind = "allocation"
        /\ <<aresult.stock, aresult.bond>> = AllocationReference(aargs)
        /\ aresult.stock + aresult.bond = AllocScale

\* C10 witness: a call inside the tent, past its first year
C10_Witness ==
    /\ apc = "done"
    /\ widgets.use_bond_tent
    /\ aargs.start_age < aargs.age /\ aargs.age < aargs.retirement_age
    /\ aresult.stock # aargs.initial_stock
    /\ aresult.stock # AllocScale - aargs.final_bond

(***************************************************************************)
(* Claims about the Monte Carlo engine                                     *)
(***************************************************************************)
\* C6: each finished call returned exactly num_sims records, in trial index
\* order, and two calls with the same num_sims returned the same sequence.
C6_RepeatableRuns ==
    /\ \A k \in 1..Len(returned) :
          /\ Len(returned[k]) = mcplan[k]
          /\ \A i \in 1..Len(returned[k]) : returned[k][i].trial = i - 1
    /\ (Len(returned) = 2 /\ mcplan[1] = mcplan[2]) => returned[2] = returned[1]

\* C6 witness: two finished calls of two trials or more whose trials differ
C6_Witness ==
    /\ Len(returned) = 2
    /\ mcplan[1] = mcplan[2]
    /\ mcplan[1] >= 2
    /\ returned[1][1].balance_at_retirement # returned[1][2].balance_at_retirement

\* the accumulation of a trial from year y on, computed on its own
RECURSIVE AccumulateFrom(_, _, _, _)
AccumulateFrom(bal, state, returns, y) ==
    IF y >= years_to_retirement THEN bal
    ELSE LET a    == calculate_bond_tent_allocation(widgets.current_age + y,
                         widgets.bond_tent_start_age,
                         widgets.target_retirement_age,
                         widgets.initial_stock_ratio, widgets.final_bond_ratio)
             next == NextRng(state)
             grown == IF widgets.use_bond_tent
                      THEN Compound(bal,
                               Blend(a, returns[y + 1],
                                     Normal(next, widgets.retirement_return, 25)),
                               AllocScale * RateScale)
                      ELSE Compound(bal, returns[y + 1], RateScale)
         IN  AccumulateFrom(AddContribution(grown, widgets.monthly_contribution),
                            IF widgets.use_bond_tent THEN next ELSE state,
                            returns, y + 1)

\* balance_at_retirement of trial i as a function of the inputs and i alone:
\* the generator seeded with i, whatever state it was in
TrialBalance(i) ==
    LET drawn == NormalVector(SeedRng(0, i), widgets.working_return, 170,
                              years_to_retirement)
    IN  AccumulateFrom(widgets.current_savings, drawn[2], drawn[1], 0)

\* the record lists of the finished calls and of the running one
RecordLists == {returned[k] : k \in 1..Len(returned)} \cup {results}

\* C7: the record of trial i depends on the inputs and on i only: its balance
\* is that of the trial computed on its own, the rest of the record is decided
\* by that balance, and calls with different trial counts, started with the
\* generator in different states, give index i the same record.
C7_TrialIndependent ==
    \A a \in RecordLists :
        /\ \A i \in 1..Len(a) :
              a[i].balance_at_retirement = TrialBalance(a[i].trial)
        /\ \A b \in RecordLists :
              /\ \A i \in 1..Min(Len(a), Len(b)) : a[i] = b[i]
              /\ \A i \in 1..Len(a), j \in 1..Len(b) :
                    a[i].balance_at_retirement = b[j].balance_at_retirement
                    => /\ a[i].years_lasted = b[j].years_lasted
                       /\ a[i].monthly_withdrawal = b[j].monthly_withdrawal

\* C7 witness: two finished calls with different trial counts whose trials differ
C7_Witness ==
    /\ Len(returned) = 2
    /\ Len(returned[1]) # Len(returned[2])
    /\ \E a \in RecordLists :
          Len(a) >= 2 /\ a[1].balance_at_retirement # a[2].balance_at_retirement

\* C11 as stated: with the tent enabled, every call with age >= retirement_age
\* returns (1 - final_bond, final_bond), whatever the tent start age.
C11_FinalAtRetirementAnyStart ==
    (apc = "done" /\ widgets.use_bond_tent
        /\ aargs.age >= aargs.retirement_age) =>
        /\ aresult.kind = "allocation"
        /\ <<aresult.stock, aresult.bond>>
               = <<AllocScale - aargs.final_bond, aargs.final_bond>>

\* C11 amended: with the tent enabled, every call with age >= retirement_age
\* and age >= tent_start_age returns (1 - final_bond, final_bond); a call with
\* retirement_age <= age < tent_start_age returns
\* (initial_stock, 1 - initial_stock).
C11_FinalAtRetirementAfterStart ==
    (apc = "done" /\ widgets.use_bond_tent
        /\ aargs.age >= aargs.retirement_age) =>
        /\ aresult.kind = "allocation"
        /\ <<aresult.stock, aresult.bond>>
               = IF aargs.age >= aargs.start_age
                 THEN <<AllocScale - aargs.final_bond, aargs.final_bond>>
                 ELSE <<aargs.initial_stock, AllocScale - aargs.initial_stock>>

\* C11 witness: a call past retirement in a tent that started before it,
\* where the final pair differs from the initial one
C11_Witness ==
    /\ apc = "done" /\ widgets.use_bond_tent
    /\ aargs.age > aargs.retirement_age
    /\ aargs.start_age < aargs.retirement_age
    /\ aresult.stock = AllocScale - aargs.final_bond
    /\ aresult.stock # aargs.initial_stock
    /\ aresult.stock # aargs.final_bond

\* C12: two calls with equal arguments return equal pairs, whatever the rest
\* of the program state is.
C12_PureFunction ==
    \A i, j \in 1..Len(acalls) :
        acalls[i].args = acalls[j].args =>
            acalls[i].result = acalls[j].result

(***************************************************************************)
(* Claims about the success rates                                          *)
(***************************************************************************)
\* the trials of the list that are perpetual or lasted at least T years
Successes(T) ==
    { i \in 1..Len(mc_results) :
        \/ mc_results[i].years_lasted = PERPETUAL
        \/ /\ mc_results[i].years_lasted # PERPETUAL
           /\ mc_results[i].years_lasted.num
                 >= T * mc_results[i].years_lasted.den }

\* the tenth of a percent nearest to c / n
NearestTenth(c, n) ==
    CHOOSE t \in 0..1000 : (2 * n * t) - n <= 2000 * c /\ 2000 * c < (2 * n * t) + n

\* C13: for a non-empty list of trials and T = 30 and 35, the success rate
\* reported is (trials perpetual or lasting >= T years) / (number of trials):
\* the computed rate is that fraction, the figure shown is its nearest tenth
\* of a percent, and with every trial perpetual the figure shown is 100%.
C13_SuccessRate ==
    spc = "done" =>
        LET n == Len(mc_results)
            c30 == Cardinality(Successes(30))
            c35 == Cardinality(Successes(35))
        IN  /\ stats.shown_30 = NearestTenth(c30, n)
            /\ stats.shown_35 = NearestTenth(c35, n)
            /\ stats.kind = "computed" =>
                  /\ stats.total_success_30.num * n = c30 * stats.total_success_30.den
                  /\ stats.total_success_35.num * n = c35 * stats.total_success_35.den
            /\ (\A i \in 1..n : mc_results[i].years_lasted = PERPETUAL) =>
                  stats.shown_30 = 1000 /\ stats.shown_35 = 1000

\* C13 witness: a list with a perpetual trial, a trial that reached 35 years
\* and a trial that ended before 30
C13_Witness ==
    /\ spc = "done"
    /\ \E i, j, k \in 1..Len(mc_results) :
          /\ mc_results[i].years_lasted = PERPETUAL
          /\ mc_results[j].years_lasted = Years(420, 12)
          /\ mc_results[k].years_lasted = Years(359, 12)
    /\ stats.shown_30 = 667

\* C14: for a fixed non-empty list of trials the success rate at 35 years is
\* at most the success rate at 30 years.
C14_Monotone ==
    spc = "done" =>
        /\ stats.shown_35 <= stats.shown_30
        /\ stats.kind = "computed" =>
              stats.total_success_35.num * stats.total_success_30.den
                 <= stats.total_success_30.num * stats.total_success_35.den

\* C14 witness: a trial that lasted 30 years but not 35 makes the two differ
C14_Witness ==
    /\ spc = "done"
    /\ \E i \in 1..Len(mc_results) : mc_results[i].years_lasted = Years(360, 12)
    /\ stats.shown_35 < stats.shown_30

(***************************************************************************)
(* Claims about the simulator's preconditions and guardrails               *)
(***************************************************************************)
\* the call breaks a documented precondition of simulate
PreconditionViolated ==
    \/ args.balance <= 0
    \/ args.use_guardrails /\ args.lower_bound > args.upper_bound

\* C15: a call that breaks a documented precondition (balance not positive, or
\* guardrails with lower_bound > upper_bound) ends in an error before any
\* monthly step: it never enters the loop and never returns a duration or
\* PERPETUAL.
C15_InvalidParametersRejected ==
    (pc # "idle" /\ pc # "call" /\ PreconditionViolated) =>
        /\ pc = "error"
        /\ months = 0
        /\ result = NoResult

\* one step of the loop at an annual evaluation, as the claim describes it
C16_Evaluation ==
    (pc = "loop" /\ args.use_guardrails /\ (months + 1) % 12 = 0) =>
        LET bal   == ApplyGrowth(current_balance, args.annual_rate)
            lower == args.lower_bound
            upper == args.upper_bound
            \* implied_rate = annual_withdrawal / balance, or upper_bound
            above == IF bal > 0
                     THEN annual_withdrawal * WScale > upper * bal
                     ELSE FALSE
            below == IF bal > 0
                     THEN annual_withdrawal * WScale < lower * bal
                     ELSE upper < lower
        IN  IF above
            THEN /\ current_withdrawal_rate'
                      = Max(lower, (95 * current_withdrawal_rate) \div 100)
                 /\ annual_withdrawal'
                      = (bal * current_withdrawal_rate') \div WScale
            ELSE IF below /\ current_withdrawal_rate < upper
            THEN /\ current_withdrawal_rate'
                      = Min(upper, (105 * current_withdrawal_rate) \div 100)
                 /\ annual_withdrawal'
                      = (bal * current_withdrawal_rate') \div WScale
            ELSE /\ current_withdrawal_rate' = current_withdrawal_rate
                 /\ annual_withdrawal' = annual_withdrawal

\* C16: at each annual evaluation (guardrails enabled, month a positive
\* multiple of 12): implied rate above upper_bound sets the rate to
\* max(lower, 0.95 rate); otherwise implied rate below lower_bound with the
\* rate below upper_bound sets it to min(upper, 1.05 rate); in both cases
\* annual_withdrawal becomes balance x new rate; otherwise both are unchanged.
C16_GuardrailEvaluation == [][C16_Evaluation]_vars

\* C16 witness: an evaluation that grew the rate and reset the withdrawal
C16_Witness ==
    /\ pc \in {"loop", "done"}
    /\ args.use_guardrails
    /\ months % 12 = 0
    /\ adjusted = "grow"
    /\ current_withdrawal_rate < args.upper_bound
    /\ annual_withdrawal # 12 * args.monthly_withdrawal

\* one step of the loop with the guardrails disabled or away from an evaluation
C17_NoEvaluation ==
    (pc = "loop" /\ (~args.use_guardrails \/ (months + 1) % 12 # 0)) =>
        /\ current_withdrawal_rate' = current_withdrawal_rate
        /\ annual_withdrawal' = annual_withdrawal
        /\ ~args.use_guardrails =>
              annual_withdrawal = 12 * args.monthly_withdrawal

\* C17: a monthly step leaves the rate and annual_withdrawal unchanged when
\* guardrails are disabled or the month number is not a multiple of 12, and
\* with guardrails disabled annual_withdrawal is 12 x the initial monthly
\* withdrawal for the whole run.
C17_UnchangedOffEvaluation == [][C17_NoEvaluation]_vars

\* C17 witness: guardrails disabled, at a twelfth month where the implied rate
\* is above the upper bound, and the withdrawal is still the initial one
C17_Witness ==
    /\ pc = "loop"
    /\ ~args.use_guardrails
    /\ months > 0 /\ months % 12 = 0
    /\ annual_withdrawal * WScale > args.upper_bound * current_balance
    /\ annual_withdrawal = 12 * args.monthly_withdrawal
    /\ adjusted = "none"

\* guardrails enabled, 0 < lower <= upper, and the initial rate
\* 12 x monthly_withdrawal / balance inside [lower, upper]
StartsInBand ==
    /\ args.use_guardrails
    /\ args.balance > 0
    /\ 0 < args.lower_bound /\ args.lower_bound <= args.upper_bound
    /\ args.lower_bound * args.balance <= 12 * args.monthly_withdrawal * WScale
    /\ 12 * args.monthly_withdrawal * WScale <= args.upper_bound * args.balance

\* one step of such a run
C20_Step ==
    (pc = "loop" /\ StartsInBand) =>
        /\ args.lower_bound <= current_withdrawal_rate
        /\ current_withdrawal_rate <= args.upper_bound
        /\ args.lower_bound <= current_withdrawal_rate'
        /\ current_withdrawal_rate' <= args.upper_bound
        /\ adjusted' = "shrink" => annual_withdrawal' < annual_withdrawal
        /\ adjusted' = "grow" => annual_withdrawal' > annual_withdrawal

\* C20: in a run with guardrails enabled, 0 < lower <= upper and the initial
\* rate in [lower, upper], the tracked rate stays in [lower, upper] in every
\* state, every shrink strictly lowers annual_withdrawal and every growth
\* strictly raises it.
C20_BandKept == [][C20_Step]_vars

\* C20 witness: such a run whose rate was shrunk below its initial value
C20_Witness ==
    /\ pc \in {"loop", "done"}
    /\ StartsInBand
    /\ adjusted = "shrink"
    /\ current_withdrawal_rate * args.balance < 12 * args.monthly_withdrawal * WScale
    /\ annual_withdrawal < 12 * args.monthly_withdrawal

(***************************************************************************)
(* Claims about the records of the Monte Carlo engine                      *)
(***************************************************************************)
\* the withdrawal the claim gives for a record
RecordedWithdrawal(r) ==
    IF r.years_lasted = PERPETUAL
    THEN (r.balance_at_retirement * widgets.withdrawal_rate) \div (12 * WScale)
    ELSE Inflate(widgets.monthly_contribution, widgets.inflation_rate,
                 widgets.target_retirement_age - widgets.current_age)

\* C18: in every TrialRecord monthly_withdrawal is balance_at_retirement x
\* withdrawal_rate / 12 when the trial is perpetual and otherwise
\* monthly_contribution x (1 + inflation)^years_to_retirement, whatever the
\* guardrails did during the simulation.
C18_RecordedWithdrawal ==
    \A list \in RecordLists :
        \A i \in 1..Len(list) :
            list[i].monthly_withdrawal = RecordedWithdrawal(list[i])

\* C18 witness: a trial that ran out, in which the guardrails changed the
\* annual withdrawal, was recorded with the inflated expenses
C18_Witness ==
    /\ mcpc \in {"trial", "returned"}
    /\ results # <<>>
    /\ results[Len(results)].years_lasted # PERPETUAL
    /\ args.use_guardrails
    /\ annual_withdrawal # 12 * future_monthly_expenses
    /\ results[Len(results)].monthly_withdrawal = future_monthly_expenses

\* every stock return drawn in the trial is working_return and every bond
\* return drawn is retirement_return
DrawsAtMean ==
    /\ \A i \in 1..Len(working_returns) :
          working_returns[i] = widgets.working_return
    /\ \A i \in 1..Len(bond_returns) :
          bond_returns[i] = widgets.retirement_return

\* the accumulation of the trial is complete
Accumulated ==
    /\ mcpc \in {"accumulate", "withdraw"}
    /\ myear = widgets.target_retirement_age - widgets.current_age

\* C19: a trial whose sampled stock returns all equal working_return and
\* whose sampled bond returns all equal retirement_return reaches retirement
\* with the balance project(current_savings, monthly_contribution,
\* years_to_retirement, working_return, use_bond_tent) returned, with the bond
\* tent enabled or disabled.
C19_TrialAtMeanIsProjection ==
    (Accumulated /\ DrawsAtMean) =>
        /\ ppc = "done"
        /\ pargs = [principal |-> widgets.current_savings,
                    monthly_contrib |-> widgets.monthly_contribution,
                    years |-> widgets.target_retirement_age - widgets.current_age,
                    annual_rate |-> widgets.working_return,
                    use_tent |-> widgets.use_bond_tent]
        /\ mbalance = presult

\* C19 witness: such a trial with the bond tent enabled, inside the tent
C19_Witness ==
    /\ Accumulated /\ DrawsAtMean
    /\ mcpc = "withdraw"
    /\ widgets.use_bond_tent
    /\ Len(bond_returns) = myear /\ myear >= 2
    /\ widgets.bond_tent_start_age < widgets.current_age
    /\ mbalance = presult
    /\ mbalance > widgets.current_savings

(***************************************************************************)
(* Claims about the allocation's division                                  *)
(***************************************************************************)
\* the call is one that reaches the interpolation
Interpolates(x) ==
    /\ widgets.use_bond_tent
    /\ x.start_age <= x.age
    /\ x.age < x.retirement_age

\* C21: allocate never divides by zero: every call returns a pair, also with
\* tent_start_age equal to or after retirement_age; a call that interpolates
\* has tent_start_age <= age < retirement_age, hence a denominator
\* retirement_age - tent_start_age > 0, and its stock fraction lies between
\* initial_stock and 1 - final_bond inclusive.
C21_NoDivisionByZero ==
    apc = "done" =>
        /\ aresult.kind = "allocation"
        /\ aresult # ZeroDivisionError
        /\ Interpolates(aargs) =>
              /\ aargs.retirement_age - aargs.start_age > 0
              /\ Min(aargs.initial_stock, AllocScale - aargs.final_bond)
                    <= aresult.stock
              /\ aresult.stock
                    <= Max(aargs.initial_stock, AllocScale - aargs.final_bond)
        /\ (widgets.use_bond_tent /\ ~Interpolates(aargs)) =>
              \/ aresult.stock = aargs.initial_stock
              \/ aresult.stock = AllocScale - aargs.final_bond

\* C21 witness: a call with the tent starting at the retirement age, at that
\* age, where a division would be by zero: it returned the final pair
C21_Witness ==
    /\ apc = "done"
    /\ widgets.use_bond_tent
    /\ aargs.start_age = aargs.retirement_age
    /\ aargs.age = aargs.start_age
    /\ aresult.kind = "allocation"
    /\ aresult.stock = AllocScale - aargs.final_bond
    /\ aresult.stock # aargs.initial_stock

====
